---- MODULE Spec2Model ----
(***************************************************************************)
(* A model of ollama-manager: the endpoint record with its two atomics     *)
(* (src/src/endpoint.rs), the three selection strategies (src/src/lb/),    *)
(* LoadBalancer::get_endpoint (src/src/lib.rs), the health probe           *)
(* (src/src/health.rs), the model manager (src/src/model_manager.rs), the   *)
(* handlers and the start-up of src/src/main.rs, and the connection-       *)
(* counting tower layer (src/src/middleware.rs).                           *)
(*                                                                         *)
(* The specifications share the variables:                                 *)
(*   SpecEndpoint  concurrent callers of increment_connections and         *)
(*                 decrement_connections, each releasing only what it      *)
(*                 acquired;                                               *)
(*   SpecPick      concurrent get_endpoint calls over a pool whose health  *)
(*                 flags and connection counts do not change;              *)
(*   Spec          the server as main.rs builds it: the router is          *)
(*                 /health plus the fallback handle_proxy, and no layer    *)
(*                 is installed, so no request touches a counter;          *)
(*   SpecLayered   the same router wrapped in ConnectionMiddleware, the    *)
(*                 only caller of increment_connections and                *)
(*                 decrement_connections in the repository;                *)
(*   SpecBoot      start-up: initialize_system with ensure_model, and the  *)
(*                 health loop, already spawned, call by call, over        *)
(*                 backends whose routes answer or never do;               *)
(*   SpecTags      is_model_present over the responses of GET /api/tags;   *)
(*   SpecReport    handle_health_check while the health loop runs;         *)
(*   SpecStream    the response handle_proxy builds from an upstream       *)
(*                 response, head and body, chunk by chunk;                *)
(*   SpecChurn     the server after start-up: get_endpoint in its steps,   *)
(*                 the re-probes it spawns and the health loop, over       *)
(*                 backends that answer, never answer or always pass;      *)
(*   SpecChurnFair the same with every running task scheduled fairly.      *)
(***************************************************************************)
EXTENDS Integers, Sequences, FiniteSets

(* ------------------------------ bounds --------------------------------- *)

\* Width of the model's AtomicU32 (32 in the build): counters wrap at 2^U32Bits.
U32Bits == 3
\* Width of the model's AtomicUsize (64 in the build; 2^64 and 2^4 are both 1 mod 3).
UsizeBits == 4
\* Largest pool of the selection specification.
MaxPool == 3
\* Largest connection count drawn for the selection specification.
MaxLoad == 2
\* Number of get_endpoint calls of the selection specification.
MaxPicks == 5
\* Pool size of the endpoint and server specifications.
ProxyPool == 2
\* Largest max_connections drawn from the configuration (from 1 up).
MaxCap == 2
\* Number of concurrent callers or request tasks.
MaxTasks == 2
\* Number of requests the server accepts in one behaviour.
MaxArrivals == 2

\* Longest models array of a /api/tags response.
MaxModels == 2

\* Chunks of an upstream response body at most.
MaxChunks == 3

U32Mod == 2 ^ U32Bits
UsizeMod == 2 ^ UsizeBits
Tasks == 1 .. MaxTasks
Strategies == {"round_robin", "least_connections", "random"}
\* The error value of a pick; endpoints are their 1-based positions in the pool.
NoHealthyEndpoints == 0

VARIABLES
    healthy,    \* [pool -> BOOLEAN]          Endpoint.healthy
    conns,      \* [pool -> 0 .. U32Mod - 1]  Endpoint.current_connections
    maxc,       \* [pool -> Nat]              Endpoint.max_connections
    strategy,   \* the configured strategy
    current,    \* RoundRobin.current
    start,      \* the value of RoundRobin.current at the first pick (history)
    picks,      \* results of the get_endpoint calls so far, in order (history)
    hcNext,     \* position of the health loop in its pass over the pool
    arrivals,   \* requests accepted so far
    task,       \* [Tasks -> record]: each caller's or request's position and locals
    silent,     \* the endpoints whose backend accepts a request and never answers it
    probe,      \* the check_health call the health loop is in, and its probe results
    boot,       \* initialize_system: its position, ensure_model's locals and its log
    report,     \* handle_health_check: its position, its rows and its answer
    tags,       \* one GET /api/tags exchange: the response, the name, the result
    relay,      \* one upstream response and what handle_proxy has passed on of it
    reprobe,    \* the re-probes get_endpoint has spawned, in order, each with its position
    sound       \* the endpoints whose backend passes every probe

vars == <<healthy, conns, maxc, strategy, current, start, picks, hcNext, arrivals, task,
          silent, probe, boot, report, tags, relay, reprobe, sound>>

\* The state of the request path, and the state of start-up, probing and reporting.
reqVars == <<conns, maxc, strategy, current, start, picks, arrivals, task>>
auxVars == <<relay, reprobe, sound>>
ctlVars == <<silent, probe, boot, report, tags, auxVars>>

Pool == DOMAIN healthy

(* --------------------------- src/src/endpoint.rs ----------------------- *)

\* AtomicU32::fetch_add(1): the stored value after the add (wrapping).
FetchAdd(c, e) == [c EXCEPT ![e] = (c[e] + 1) % U32Mod]

\* AtomicU32::fetch_sub(1): the stored value after the subtraction (wrapping).
FetchSub(c, e) == [c EXCEPT ![e] = (c[e] + U32Mod - 1) % U32Mod]

AtCapOffByOne(cur, max) == cur > max

AtCapOneEarly(cur, max) == cur + 1 >= max

\* increment_connections line 38: the value read by fetch_add refuses the caller.
AtCap(cur, max) == cur >= max

(* --------------------------- src/src/lb/*.rs --------------------------- *)

HealthyEndpointsUnfiltered(h) == [i \in 1 .. Cardinality(DOMAIN h) |-> i]

\* endpoints.iter().filter(|e| e.is_healthy()).collect(): pool order kept.
HealthyEndpoints(h) == SelectSeq([i \in 1 .. Cardinality(DOMAIN h) |-> i], LAMBDA e : h[e])

RoundRobinIndexPostIncrement(cur, n) == (cur + 1) % n

\* round_robin.rs line 30: index = current % healthy_endpoints.len().
RoundRobinIndex(cur, n) == cur % n

\* RoundRobin::next_endpoint after the filter: fetch_add, then index.
RoundRobinPick(he, cur) == he[RoundRobinIndex(cur, Len(he)) + 1]

\* fetch_add(1) on the AtomicUsize (wrapping).
RoundRobinAdvance(cur) == (cur + 1) % UsizeMod

RECURSIVE MinByKeyLast(_, _, _, _)
MinByKeyLast(he, c, i, best) ==
    IF i > Len(he) THEN best
    ELSE MinByKeyLast(he, c, i + 1, IF c[he[i]] <= c[best] THEN he[i] ELSE best)

\* Iterator::min_by_key(|e| e.get_connections()): a later element replaces the
\* running minimum only when its key is strictly smaller.
RECURSIVE MinByKey(_, _, _, _)
MinByKey(he, c, i, best) ==
    IF i > Len(he) THEN best
    ELSE MinByKey(he, c, i + 1, IF c[he[i]] < c[best] THEN he[i] ELSE best)

LeastConnPickLast(he, c) == MinByKeyLast(he, c, 2, he[1])

\* LeastConnections::next_endpoint after the filter.
LeastConnPick(he, c) == MinByKey(he, c, 2, he[1])

\* RandomStrategy::next_endpoint after the filter: gen_range(0..len).
RandomPicks(he) == {he[i] : i \in 1 .. Len(he)}

NextEndpointNoEmptyCheck(s, he, c, cur) ==
    IF he = <<>> THEN {1}
    ELSE IF s = "round_robin" THEN {RoundRobinPick(he, cur)}
    ELSE IF s = "least_connections" THEN {LeastConnPick(he, c)}
    ELSE RandomPicks(he)

\* LoadBalancingStrategy::next_endpoint given the filtered list: the results it can
\* return (one, or any healthy endpoint for random).
NextEndpoint(s, he, c, cur) ==
    IF he = <<>> THEN {NoHealthyEndpoints}
    ELSE IF s = "round_robin" THEN {RoundRobinPick(he, cur)}
    ELSE IF s = "least_connections" THEN {LeastConnPick(he, c)}
    ELSE RandomPicks(he)

\* The round-robin counter after a pick: only a non-empty round-robin pick adds.
NextCurrent(s, he, cur) ==
    IF s = "round_robin" /\ he # <<>> THEN RoundRobinAdvance(cur) ELSE cur

(* ------------------ start-up, probing, reporting: idle ----------------- *)

\* The health loop between two check_health calls.
ProbeIdle == [pc |-> "idle", ep |-> 0, live |-> "none", model |-> "none", was |-> TRUE]

\* initialize_system before it is called, and after it has returned Ok.
BootFresh ==
    [pc |-> "start", i |-> 1, tagsLog |-> <<>>, pullLog |-> <<>>, ensured |-> <<>>,
     result |-> "none"]
BootOver == [BootFresh EXCEPT !.pc = "done", !.result = "ok"]

\* No /health request in progress.
ReportIdle == [pc |-> "idle", i |-> 1, rows |-> <<>>, status |-> 0, count |-> 0, total |-> 0]

\* No /api/tags exchange under study.
TagsNone == [resp |-> <<>>, name |-> "", out |-> "none"]

\* No upstream response under study.
RelayNone == [up |-> <<>>, pc |-> "none", head |-> <<>>, got |-> <<>>, end |-> "none"]

\* No re-probe spawned, and no backend known to pass every probe.
AuxIdle ==
    /\ relay = RelayNone
    /\ reprobe = <<>>
    /\ sound = {}

\* The server after start-up, with every backend answering.
CtlIdle ==
    /\ silent = {}
    /\ probe = ProbeIdle
    /\ boot = BootOver
    /\ report = ReportIdle
    /\ tags = TagsNone
    /\ AuxIdle

(* ------------------------------ tasks ---------------------------------- *)

\* A task that has not started: no endpoint chosen, nothing acquired.
FreshTask ==
    [pc |-> "idle", mw |-> FALSE, cep |-> 0, cur |-> 0, acq |-> "none", ep |-> 0,
     hl |-> <<>>, fwd |-> FALSE, stream |-> FALSE, status |-> 0, rel |-> 0,
     sat |-> FALSE, everFwd |-> FALSE, alone |-> FALSE, pre |-> <<>>, err |-> "none"]

Set(t, rec) == task' = [task EXCEPT ![t] = rec]

(* ----------------- SpecEndpoint: callers of one endpoint ---------------- *)

\* One endpoint as Endpoint::new leaves it, and one caller more than MaxTasks, so
\* that an endpoint of capacity MaxCap is contended.
InitEndpoint ==
    /\ healthy = [e \in {1} |-> TRUE]
    /\ conns = [e \in {1} |-> 0]
    /\ maxc \in [{1} -> 1 .. MaxCap]
    /\ strategy = "round_robin"
    /\ current = 0
    /\ start = 0
    /\ picks = <<>>
    /\ hcNext = 1
    /\ arrivals = 0
    /\ task = [t \in Tasks \cup {MaxTasks + 1} |-> FreshTask]
    /\ CtlIdle

\* increment_connections line 37: the fetch_add, keeping the value read.
CallerFetchAdd(t) ==
    /\ task[t].pc = "idle"
    /\ \E e \in Pool :
        /\ conns' = FetchAdd(conns, e)
        /\ Set(t, [task[t] EXCEPT !.pc = "added", !.cep = e, !.cur = conns[e]])
    /\ UNCHANGED <<ctlVars, healthy, maxc, strategy, current, start, picks, hcNext, arrivals>>

\* increment_connections lines 38-43: undo and return false, or return true.
CallerCheck(t) ==
    /\ task[t].pc = "added"
    /\ IF AtCap(task[t].cur, maxc[task[t].cep])
       THEN /\ conns' = FetchSub(conns, task[t].cep)
            /\ Set(t, [task[t] EXCEPT !.pc = "idle", !.acq = "false", !.cur = 0])
       ELSE /\ conns' = conns
            /\ Set(t, [task[t] EXCEPT !.pc = "holding", !.acq = "true", !.cur = 0])
    /\ UNCHANGED <<ctlVars, healthy, maxc, strategy, current, start, picks, hcNext, arrivals>>

\* decrement_connections, called by a caller whose acquire returned true.
CallerRelease(t) ==
    /\ task[t].pc = "holding"
    /\ conns' = FetchSub(conns, task[t].cep)
    /\ Set(t, [task[t] EXCEPT !.pc = "idle", !.acq = "none"])
    /\ UNCHANGED <<ctlVars, healthy, maxc, strategy, current, start, picks, hcNext, arrivals>>

NextEndpointHarness ==
    \/ \E t \in DOMAIN task : CallerFetchAdd(t)
    \/ \E t \in DOMAIN task : CallerCheck(t)
    \/ \E t \in DOMAIN task : CallerRelease(t)

SpecEndpoint == InitEndpoint /\ [][NextEndpointHarness]_vars

(* ------------- SpecPick: get_endpoint over an unchanging pool ----------- *)

\* The pool, its flags and its counts are drawn once and then left alone; the
\* counts matter to least_connections only and the counter to round_robin only.
InitPick ==
    /\ \E n \in 1 .. MaxPool :
        /\ healthy \in [1 .. n -> BOOLEAN]
        /\ maxc = [e \in 1 .. n |-> MaxLoad]
        /\ conns \in [1 .. n -> 0 .. MaxLoad]
    /\ strategy \in Strategies
    /\ strategy # "least_connections" => \A e \in Pool : conns[e] = 0
    /\ current \in 0 .. UsizeMod - 1
    /\ strategy # "round_robin" => current = 0
    /\ start = current
    /\ picks = <<>>
    /\ hcNext = 1
    /\ arrivals = 0
    /\ task = [t \in Tasks |-> FreshTask]
    /\ CtlIdle

\* get_endpoint up to the strategy's filter (lib.rs 62-69, the filter of each
\* next_endpoint): the healthy subsequence is collected into a local.
PickFilter(t) ==
    /\ task[t].pc = "idle"
    /\ arrivals < MaxPicks
    /\ arrivals' = arrivals + 1
    /\ Set(t, [task[t] EXCEPT !.pc = "filtered", !.hl = HealthyEndpoints(healthy)])
    /\ UNCHANGED <<ctlVars, healthy, conns, maxc, strategy, current, start, picks, hcNext>>

\* The rest of next_endpoint and of get_endpoint: the empty check, the selection
\* (for round_robin the fetch_add), and the result handed to the caller.
PickSelect(t) ==
    /\ task[t].pc = "filtered"
    /\ \E res \in NextEndpoint(strategy, task[t].hl, conns, current) :
        /\ picks' = Append(picks, res)
        /\ Set(t, [task[t] EXCEPT !.pc = "idle", !.ep = res, !.hl = <<>>])
    /\ current' = NextCurrent(strategy, task[t].hl, current)
    /\ UNCHANGED <<ctlVars, healthy, conns, maxc, start, strategy, hcNext, arrivals>>

NextPick ==
    \/ \E t \in Tasks : PickFilter(t)
    \/ \E t \in Tasks : PickSelect(t)

SpecPick == InitPick /\ [][NextPick]_vars

(* --------------------- the server: shared definitions ------------------- *)

InitServer ==
    /\ healthy = [e \in 1 .. ProxyPool |-> TRUE]
    /\ conns = [e \in 1 .. ProxyPool |-> 0]
    /\ maxc \in [1 .. ProxyPool -> 1 .. MaxCap]
    /\ strategy \in Strategies
    /\ current = 0
    /\ start = 0
    /\ picks = <<>>
    /\ hcNext = 1
    /\ arrivals = 0
    /\ task = [t \in Tasks |-> FreshTask]
    /\ CtlIdle

\* A request that has arrived and whose response (body included) is not finished.
Active(t) == task[t].pc \notin {"idle", "done"}

\* The requests whose upstream exchange with endpoint e is in progress.
InFlight(e) == {t \in DOMAIN task : task[t].fwd /\ task[t].ep = e}

\* The response leaves the service stack: a streamed body is still to be forwarded.
Responded(rec) ==
    IF rec.stream THEN [rec EXCEPT !.pc = "streaming"]
    ELSE [rec EXCEPT !.pc = "done", !.fwd = FALSE]

\* handle_proxy returns (a response or an AppError turned into one): with the layer
\* installed and an endpoint obtained by it, control is back in the layer's future at
\* middleware.rs line 57; otherwise the response goes out.
Returned(rec) ==
    IF rec.mw /\ rec.cep # 0 THEN [rec EXCEPT !.pc = "mw_dec"] ELSE Responded(rec)

\* A new request enters the service stack at entry point pc0. The history fields note
\* whether it runs with no other request in flight, and the counters it found; the
\* note of every other request ends here, since the counters may move from now on.
Accept(t, pc0, layered) ==
    /\ ~Active(t)
    /\ arrivals < MaxArrivals
    /\ arrivals' = arrivals + 1
    /\ LET lone == \A u \in Tasks \ {t} : ~Active(u)
       IN task' = [u \in Tasks |->
                    IF u = t
                    THEN [FreshTask EXCEPT !.pc = pc0, !.mw = layered, !.alone = lone,
                                           !.pre = IF lone THEN conns ELSE <<>>]
                    ELSE [task[u] EXCEPT !.alone = FALSE, !.pre = <<>>]]
    /\ UNCHANGED <<ctlVars, healthy, conns, maxc, strategy, current, start, picks, hcNext>>

(* --------------------------- src/src/health.rs -------------------------- *)

CheckHealthErrorPasses(live, model) == live /\ model # "absent"

\* HttpHealthCheck::check_health: the flag it leaves, from the liveness probe and the
\* model probe ("present", "absent" or "error").
CheckHealth(live, model) == live /\ model = "present"

\* One iteration of the for loop of start_health_checks: probe the next endpoint of
\* the pass; after the last one the loop waits for the next tick and starts over.
HealthLoopStep ==
    /\ \E live \in BOOLEAN, model \in {"present", "absent", "error"} :
        healthy' = [healthy EXCEPT ![hcNext] = CheckHealth(live, model)]
    /\ hcNext' = IF hcNext = Cardinality(Pool) THEN 1 ELSE hcNext + 1
    /\ UNCHANGED <<ctlVars, conns, maxc, strategy, current, start, picks, arrivals, task>>

(* ---------------------- src/src/main.rs: handle_proxy ------------------- *)

\* The router of main.rs lines 314-317: the request goes straight to handle_proxy.
Arrive(t) == Accept(t, "hp_pick", FALSE)

\* AppError::into_response for the error of get_endpoint (main.rs 47-54).
NoEndpointStatus == 503

\* AppError::into_response for every other error.
OtherErrorStatus == 500

\* The status of an upstream answer, mirrored to the client.
UpstreamStatus == 200

\* The errors handle_proxy returns: the variants of LoadBalancerError that reach it
\* (error.rs 4-12), and errors of other types (reqwest, http, axum) raised by ?.
LoadBalancerErrors == {"NoHealthyEndpoints", "ConfigError", "HttpError"}
ProxyErrors == LoadBalancerErrors \cup {"reqwest::Error", "http::Error"}

\* AppError::into_response lines 47-54: the downcast to LoadBalancerError and the
\* match on it.
IntoResponse(err) ==
    IF err \in LoadBalancerErrors
    THEN IF err = "NoHealthyEndpoints" THEN NoEndpointStatus ELSE OtherErrorStatus
    ELSE OtherErrorStatus

\* handle_proxy returns Err(err): axum turns it into the response of into_response.
Fail(rec, err) == [rec EXCEPT !.err = err, !.status = IntoResponse(err)]

\* handle_proxy line 119: get_endpoint; its error becomes the 503 answer.
HpGetEndpoint(t) ==
    /\ task[t].pc = "hp_pick"
    /\ LET he == HealthyEndpoints(healthy)
       IN /\ \E res \in NextEndpoint(strategy, he, conns, current) :
               IF res = NoHealthyEndpoints
               THEN Set(t, Returned(Fail(task[t], "NoHealthyEndpoints")))
               ELSE Set(t, [task[t] EXCEPT !.pc = "hp_verify", !.ep = res,
                                           !.sat = Cardinality(InFlight(res)) >= maxc[res]])
          /\ current' = NextCurrent(strategy, he, current)
    /\ UNCHANGED <<ctlVars, healthy, conns, maxc, strategy, start, picks, hcNext, arrivals>>

\* handle_proxy line 122, verify_model_availability: Ok(false) becomes a ConfigError
\* (lines 105-110), Err is handed on by ? as the HttpError it is.
HpVerifyModel(t) ==
    /\ task[t].pc = "hp_verify"
    /\ \E model \in {"present", "absent", "error"} :
        IF model = "present"
        THEN Set(t, [task[t] EXCEPT !.pc = "hp_send"])
        ELSE Set(t, Returned(Fail(task[t], IF model = "absent" THEN "ConfigError"
                                                               ELSE "HttpError")))
    /\ UNCHANGED <<ctlVars, healthy, conns, maxc, strategy, current, start, picks, hcNext, arrivals>>

\* handle_proxy lines 124-158: build the upstream request (a method, header or body
\* conversion error ends in 500) and send it.
HpSend(t) ==
    /\ task[t].pc = "hp_send"
    /\ \E built \in BOOLEAN :
        IF built
        THEN Set(t, [task[t] EXCEPT !.pc = "hp_wait", !.fwd = TRUE, !.everFwd = TRUE])
        ELSE Set(t, Returned(Fail(task[t], "http::Error")))
    /\ UNCHANGED <<ctlVars, healthy, conns, maxc, strategy, current, start, picks, hcNext, arrivals>>

\* handle_proxy lines 158-192: the upstream answers with a transport error, with an
\* ndjson head (the streamed response is returned at once) or with another head.
HpUpstream(t) ==
    /\ task[t].pc = "hp_wait"
    /\ \E answer \in {"error", "stream", "unary"} :
        IF answer = "error"
        THEN Set(t, Returned(Fail([task[t] EXCEPT !.fwd = FALSE], "reqwest::Error")))
        ELSE IF answer = "stream"
        THEN Set(t, Returned([task[t] EXCEPT !.status = UpstreamStatus, !.stream = TRUE]))
        ELSE Set(t, [task[t] EXCEPT !.pc = "hp_body"])
    /\ UNCHANGED <<ctlVars, healthy, conns, maxc, strategy, current, start, picks, hcNext, arrivals>>

\* handle_proxy lines 195-206: buffer the body; a transport error ends in 500.
HpBody(t) ==
    /\ task[t].pc = "hp_body"
    /\ \E ok \in BOOLEAN :
        Set(t, Returned(IF ok THEN [task[t] EXCEPT !.fwd = FALSE, !.status = UpstreamStatus]
                        ELSE Fail([task[t] EXCEPT !.fwd = FALSE], "reqwest::Error")))
    /\ UNCHANGED <<ctlVars, healthy, conns, maxc, strategy, current, start, picks, hcNext, arrivals>>

\* The body stream of lines 180-186 ends, cleanly or with an I/O error.
StreamEnd(t) ==
    /\ task[t].pc = "streaming"
    /\ Set(t, [task[t] EXCEPT !.pc = "done", !.fwd = FALSE])
    /\ UNCHANGED <<ctlVars, healthy, conns, maxc, strategy, current, start, picks, hcNext, arrivals>>

\* The client goes away while the request waits at an await of handle_proxy or while
\* the body streams: the server drops the future (or the body) where it stands.
Disconnect(t) ==
    /\ task[t].pc \in {"hp_verify", "hp_wait", "hp_body", "streaming"}
    /\ Set(t, [task[t] EXCEPT !.pc = "done", !.fwd = FALSE])
    /\ UNCHANGED <<ctlVars, healthy, conns, maxc, strategy, current, start, picks, hcNext, arrivals>>

NextProxy ==
    \/ \E t \in Tasks : HpGetEndpoint(t)
    \/ \E t \in Tasks : HpVerifyModel(t)
    \/ \E t \in Tasks : HpSend(t)
    \/ \E t \in Tasks : HpUpstream(t)
    \/ \E t \in Tasks : HpBody(t)
    \/ \E t \in Tasks : StreamEnd(t)
    \/ \E t \in Tasks : Disconnect(t)
    \/ HealthLoopStep

Next == (\E t \in Tasks : Arrive(t)) \/ NextProxy

Spec == InitServer /\ [][Next]_vars

(* ------------- src/src/middleware.rs: ConnectionMiddlewareService ------- *)

\* Router::layer(ConnectionMiddleware): the request enters the layer's call first.
MwArrive(t) == Accept(t, "mw_pick", TRUE)

\* call line 54: the layer's own get_endpoint; on an error it only calls inner.
MwGetEndpoint(t) ==
    /\ task[t].pc = "mw_pick"
    /\ LET he == HealthyEndpoints(healthy)
       IN /\ \E res \in NextEndpoint(strategy, he, conns, current) :
               IF res = NoHealthyEndpoints
               THEN Set(t, [task[t] EXCEPT !.pc = "hp_pick"])
               ELSE Set(t, [task[t] EXCEPT !.pc = "mw_inc", !.cep = res])
          /\ current' = NextCurrent(strategy, he, current)
    /\ UNCHANGED <<ctlVars, healthy, conns, maxc, strategy, start, picks, hcNext, arrivals>>

\* call line 55, increment_connections line 37: the fetch_add.
MwFetchAdd(t) ==
    /\ task[t].pc = "mw_inc"
    /\ conns' = FetchAdd(conns, task[t].cep)
    /\ Set(t, [task[t] EXCEPT !.pc = "mw_chk", !.cur = conns[task[t].cep]])
    /\ UNCHANGED <<ctlVars, healthy, maxc, strategy, current, start, picks, hcNext, arrivals>>

\* increment_connections lines 38-43; call drops the result and calls inner (line 56).
MwCheck(t) ==
    /\ task[t].pc = "mw_chk"
    /\ IF AtCap(task[t].cur, maxc[task[t].cep])
       THEN /\ conns' = FetchSub(conns, task[t].cep)
            /\ Set(t, [task[t] EXCEPT !.pc = "hp_pick", !.acq = "false", !.cur = 0])
       ELSE /\ conns' = conns
            /\ Set(t, [task[t] EXCEPT !.pc = "hp_pick", !.acq = "true", !.cur = 0])
    /\ UNCHANGED <<ctlVars, healthy, maxc, strategy, current, start, picks, hcNext, arrivals>>

\* call lines 57-58: inner has returned its response; decrement and hand it on.
MwDecrement(t) ==
    /\ task[t].pc = "mw_dec"
    /\ conns' = FetchSub(conns, task[t].cep)
    /\ Set(t, Responded([task[t] EXCEPT !.rel = @ + 1]))
    /\ UNCHANGED <<ctlVars, healthy, maxc, strategy, current, start, picks, hcNext, arrivals>>

NextLayered ==
    \/ \E t \in Tasks : MwArrive(t)
    \/ \E t \in Tasks : MwGetEndpoint(t)
    \/ \E t \in Tasks : MwFetchAdd(t)
    \/ \E t \in Tasks : MwCheck(t)
    \/ \E t \in Tasks : MwDecrement(t)
    \/ NextProxy

SpecLayered == InitServer /\ [][NextLayered]_vars

(* ------------- start-up and the health loop, call by call --------------- *)

\* The routes of a backend that the program calls outside the request path.
Routes == {"base", "tags", "pull"}

\* The clients: HttpHealthCheck.client is built with the configured timeout
\* (health.rs 22-25); ModelManager.client (model_manager.rs 38) is
\* reqwest::Client::new(), which sets no timeout.
ClientHasTimeout(client) == client = "health"

\* The answers that pass a probe: a 2xx to the liveness GET, the model listed by
\* /api/tags, a pull that succeeds.
Passing == {"2xx", "present", "ok"}

\* What an awaited send() by the given client to route r of endpoint e can resolve
\* to: one of the answers if the backend answers (a passing one if the backend
\* passes every probe); if it never does, the timeout's error when the client has a
\* timeout, and nothing at all when it has none.
Resolves(e, r, client, answers) ==
    IF <<e, r>> \in silent
    THEN IF ClientHasTimeout(client) THEN {"error"} ELSE {}
    ELSE IF e \in sound THEN answers \cap Passing ELSE answers

\* The results of is_model_present: Ok(true), Ok(false), Err.
ModelResults == {"present", "absent", "error"}

\* check_health lines 45-61: basic_health from the liveness GET.
BasicHealth(live) == live = "2xx"

HcAdvanceFromStay(e) == e

\* The position of the for loop of start_health_checks after this endpoint.
HcAdvanceFrom(e) == IF e = Cardinality(Pool) THEN 1 ELSE e + 1
HcAdvance == HcAdvanceFrom(hcNext)

\* check_health lines 45-66: the liveness GET resolves; anything but a 2xx marks the
\* endpoint unhealthy and ends the check.
HcLiveness ==
    /\ boot.result # "fatal"
    /\ probe.pc = "idle"
    /\ \E live \in Resolves(hcNext, "base", "health", {"2xx", "other", "error"}) :
        IF BasicHealth(live)
        THEN /\ probe' = [pc |-> "model", ep |-> hcNext, live |-> live, model |-> "none",
                           was |-> healthy[hcNext]]
             /\ UNCHANGED <<healthy, hcNext>>
        ELSE /\ probe' = [pc |-> "idle", ep |-> hcNext, live |-> live, model |-> "none",
                           was |-> healthy[hcNext]]
             /\ healthy' = [healthy EXCEPT ![hcNext] = CheckHealth(FALSE, "none")]
             /\ hcNext' = HcAdvance
    /\ UNCHANGED <<reqVars, auxVars, silent, boot, report, tags>>

\* check_health lines 69-94: verify_model resolves, through ModelManager's client.
HcVerifyModel ==
    /\ boot.result # "fatal"
    /\ probe.pc = "model"
    /\ \E model \in Resolves(probe.ep, "tags", "manager", ModelResults) :
        /\ probe' = [probe EXCEPT !.pc = "idle", !.model = model, !.was = healthy[probe.ep]]
        /\ healthy' = [healthy EXCEPT ![probe.ep] = CheckHealth(TRUE, model)]
    /\ hcNext' = HcAdvance
    /\ UNCHANGED <<reqVars, auxVars, silent, boot, report, tags>>

\* main line 305: initialize_system is called and enters its loop; ensure_model's
\* first call for the first endpoint is sent.
BootStart ==
    /\ boot.pc = "start"
    /\ boot' = [boot EXCEPT !.pc = "tags"]
    /\ UNCHANGED <<reqVars, auxVars, healthy, hcNext, silent, probe, report, tags>>

PullWantedUnlessPresent(r) == r # "present"

\* ensure_model lines 43-54: pull_model is called in the Ok(false) arm only.
PullWanted(r) == r = "absent"

\* ensure_model line 43: is_model_present resolves. Ok(true) and Err end ensure_model
\* (lines 44-48, 69-72) with the flag stored; Ok(false) goes on to pull_model.
BootIsModelPresent ==
    /\ boot.pc = "tags"
    /\ \E r \in Resolves(boot.i, "tags", "manager", ModelResults) :
        IF PullWanted(r)
        THEN /\ boot' = [boot EXCEPT !.pc = "pull", !.tagsLog = Append(@, r)]
             /\ UNCHANGED healthy
        ELSE /\ boot' = [boot EXCEPT !.pc = "mark", !.tagsLog = Append(@, r),
                                      !.pullLog = Append(@, "none"),
                                      !.ensured = Append(@, IF r = "present" THEN "ok" ELSE "err")]
             /\ healthy' = [healthy EXCEPT ![boot.i] = (r = "present")]
    /\ UNCHANGED <<reqVars, auxVars, hcNext, silent, probe, report, tags>>

\* ensure_model lines 54-67, pull_model: the POST resolves; a transport error or a
\* non-2xx status is the Err arm.
BootPull ==
    /\ boot.pc = "pull"
    /\ \E r \in Resolves(boot.i, "pull", "manager", {"ok", "error"}) :
        /\ boot' = [boot EXCEPT !.pc = "mark", !.pullLog = Append(@, r),
                                 !.ensured = Append(@, IF r = "ok" THEN "ok" ELSE "err")]
        /\ healthy' = [healthy EXCEPT ![boot.i] = (r = "ok")]
    /\ UNCHANGED <<reqVars, auxVars, hcNext, silent, probe, report, tags>>

\* initialize_system lines 260-275: the flag is stored once more from ensure_model's
\* result, and the loop goes to the next endpoint.
BootMark ==
    /\ boot.pc = "mark"
    /\ healthy' = [healthy EXCEPT ![boot.i] = (boot.ensured[boot.i] = "ok")]
    /\ boot' = [boot EXCEPT !.i = @ + 1,
                             !.pc = IF boot.i = Cardinality(Pool) THEN "check" ELSE "tags"]
    /\ UNCHANGED <<reqVars, auxVars, hcNext, silent, probe, report, tags>>

\* initialize_system lines 279-286: Ok iff some flag reads true; main's expect makes
\* the Err fatal.
BootCheck ==
    /\ boot.pc = "check"
    /\ boot' = [boot EXCEPT !.pc = "done",
                             !.result = IF \E e \in Pool : healthy[e] THEN "ok" ELSE "fatal"]
    /\ UNCHANGED <<reqVars, auxVars, healthy, hcNext, silent, probe, report, tags>>

\* main lines 302-307: LoadBalancer::new has built the endpoints (healthy, no
\* connections) and spawned the health loop; initialize_system is about to run. Each
\* route of each backend either answers or never does.
InitBoot ==
    /\ healthy = [e \in 1 .. ProxyPool |-> TRUE]
    /\ conns = [e \in 1 .. ProxyPool |-> 0]
    /\ maxc = [e \in 1 .. ProxyPool |-> 1]
    /\ strategy = "round_robin"
    /\ current = 0
    /\ start = 0
    /\ picks = <<>>
    /\ hcNext = 1
    /\ arrivals = 0
    /\ task = [t \in Tasks |-> FreshTask]
    /\ silent \in SUBSET ((1 .. ProxyPool) \X Routes)
    /\ probe = ProbeIdle
    /\ boot = BootFresh
    /\ report = ReportIdle
    /\ tags = TagsNone
    /\ AuxIdle

NextBoot ==
    \/ BootStart
    \/ BootIsModelPresent
    \/ BootPull
    \/ BootMark
    \/ BootCheck
    \/ HcLiveness
    \/ HcVerifyModel

SpecBoot == InitBoot /\ [][NextBoot]_vars

(* ------- src/src/lib.rs: get_endpoint step by step, and its re-probes ---- *)

\* get_endpoint lines 62-69, up to the filter of next_endpoint: the healthy
\* subsequence is collected into a local. Requests are served once
\* initialize_system has returned Ok (main lines 305-323).
GeFilter(t) ==
    /\ boot.result = "ok"
    /\ ~Active(t)
    /\ arrivals < MaxArrivals
    /\ arrivals' = arrivals + 1
    /\ Set(t, [FreshTask EXCEPT !.pc = "ge_select", !.hl = HealthyEndpoints(healthy)])
    /\ UNCHANGED <<ctlVars, healthy, conns, maxc, strategy, current, start, picks, hcNext>>

\* The rest of next_endpoint (line 69): the empty check, whose error get_endpoint
\* hands on by ?, and the selection.
GeSelect(t) ==
    /\ task[t].pc = "ge_select"
    /\ \E res \in NextEndpoint(strategy, task[t].hl, conns, current) :
        IF res = NoHealthyEndpoints
        THEN /\ Set(t, [task[t] EXCEPT !.pc = "done", !.err = "NoHealthyEndpoints"])
             /\ picks' = Append(picks, res)
        ELSE /\ Set(t, [task[t] EXCEPT !.pc = "ge_check", !.ep = res])
             /\ picks' = picks
    /\ current' = NextCurrent(strategy, task[t].hl, current)
    /\ UNCHANGED <<ctlVars, healthy, conns, maxc, start, strategy, hcNext, arrivals>>

ReprobeWantedNever(h) == FALSE

\* get_endpoint line 80: the condition of the spawn, from the flag read there.
ReprobeWanted(h) == ~h

\* A re-probe as tokio::spawn creates it (lines 85-89): a check_single_endpoint call
\* on a clone of the endpoint, which shares its flag, about to send its liveness GET.
Spawned(e, t) == [ep |-> e, by |-> t, pc |-> "live"]

\* get_endpoint lines 80-103: the flag of the chosen endpoint is read, a re-probe is
\* spawned if it reads false, and the endpoint is returned in either case.
GeCheck(t) ==
    /\ task[t].pc = "ge_check"
    /\ reprobe' = IF ReprobeWanted(healthy[task[t].ep])
                  THEN Append(reprobe, Spawned(task[t].ep, t))
                  ELSE reprobe
    /\ picks' = Append(picks, task[t].ep)
    /\ Set(t, [task[t] EXCEPT !.pc = "done"])
    /\ UNCHANGED <<healthy, conns, maxc, strategy, current, start, hcNext, arrivals,
                   silent, probe, boot, report, tags, relay, sound>>

\* The re-probe's check_health, lines 45-66 of health.rs: the liveness GET resolves.
RpLiveness(i) ==
    /\ reprobe[i].pc = "live"
    /\ \E live \in Resolves(reprobe[i].ep, "base", "health", {"2xx", "other", "error"}) :
        IF BasicHealth(live)
        THEN /\ reprobe' = [reprobe EXCEPT ![i].pc = "model"]
             /\ UNCHANGED healthy
        ELSE /\ reprobe' = [reprobe EXCEPT ![i].pc = "done"]
             /\ healthy' = [healthy EXCEPT ![reprobe[i].ep] = CheckHealth(FALSE, "none")]
    /\ UNCHANGED <<reqVars, hcNext, silent, probe, boot, report, tags, relay, sound>>

\* The re-probe's check_health, lines 69-94: verify_model resolves. After Ok(true)
\* the spawned task stores the flag once more (lib.rs lines 90-94).
RpVerifyModel(i) ==
    /\ reprobe[i].pc = "model"
    /\ \E model \in Resolves(reprobe[i].ep, "tags", "manager", ModelResults) :
        /\ healthy' = [healthy EXCEPT ![reprobe[i].ep] = CheckHealth(TRUE, model)]
        /\ reprobe' = [reprobe EXCEPT
                          ![i].pc = IF CheckHealth(TRUE, model) THEN "mark" ELSE "done"]
    /\ UNCHANGED <<reqVars, hcNext, silent, probe, boot, report, tags, relay, sound>>

\* lib.rs line 93: mark_healthy by the spawned task.
RpMark(i) ==
    /\ reprobe[i].pc = "mark"
    /\ healthy' = [healthy EXCEPT ![reprobe[i].ep] = TRUE]
    /\ reprobe' = [reprobe EXCEPT ![i].pc = "done"]
    /\ UNCHANGED <<reqVars, hcNext, silent, probe, boot, report, tags, relay, sound>>

\* The routes the probes call.
ProbeRoutes == {"base", "tags"}

\* The server once initialize_system has returned Ok with every endpoint marked
\* healthy, and the backends as they behave from then on: each probed route of each
\* backend either answers or never does, and a backend none of whose routes is
\* silent may pass every probe.
InitChurn ==
    /\ healthy = [e \in 1 .. ProxyPool |-> TRUE]
    /\ conns = [e \in 1 .. ProxyPool |-> 0]
    /\ maxc = [e \in 1 .. ProxyPool |-> 1]
    /\ strategy \in Strategies
    /\ current = 0
    /\ start = 0
    /\ picks = <<>>
    /\ hcNext = 1
    /\ arrivals = 0
    /\ task = [t \in Tasks |-> FreshTask]
    /\ silent \in SUBSET ((1 .. ProxyPool) \X ProbeRoutes)
    /\ sound \in SUBSET {e \in 1 .. ProxyPool : \A r \in Routes : <<e, r>> \notin silent}
    /\ probe = ProbeIdle
    /\ boot = BootOver
    /\ report = ReportIdle
    /\ tags = TagsNone
    /\ relay = RelayNone
    /\ reprobe = <<>>

GetEndpointStep(t) == GeSelect(t) \/ GeCheck(t)
ReprobeStep(i) == RpLiveness(i) \/ RpVerifyModel(i) \/ RpMark(i)
HealthLoop == HcLiveness \/ HcVerifyModel

NextChurn ==
    \/ HealthLoop
    \/ \E t \in Tasks : GeFilter(t)
    \/ \E t \in Tasks : GetEndpointStep(t)
    \/ \E i \in DOMAIN reprobe : ReprobeStep(i)

SpecChurn == InitChurn /\ [][NextChurn]_vars

\* The tokio runtime runs every task that can take a step: the health loop, each
\* get_endpoint call under way and each spawned re-probe. Nothing is assumed about
\* requests arriving.
SpecChurnFair ==
    /\ SpecChurn
    /\ WF_vars(HealthLoop)
    /\ \A t \in Tasks : WF_vars(GetEndpointStep(t))
    /\ \A i \in 1 .. MaxArrivals : WF_vars(i \in DOMAIN reprobe /\ ReprobeStep(i))

(* ------------- src/src/model_manager.rs: is_model_present --------------- *)

\* The model names that occur, and a JSON string field that may be missing.
ModelNames == {"llama3", "mistral"}
FieldValues == ModelNames \cup {"missing"}

\* The entries of a models array as the backend sends them.
TagEntries == [name : FieldValues, model : FieldValues]

\* The sequences over S of length at most n.
SeqUpTo(S, n) == UNION {[1 .. k -> S] : k \in 0 .. n}

\* What GET /api/tags can come back with: a transport error, or a response with a
\* status and a body that is JSON or not, with a models array or without one.
TagsResponses ==
    {r \in [transport : {"ok", "error"}, status : {0, 200, 500}, json : BOOLEAN,
            hasModels : BOOLEAN, models : SeqUpTo(TagEntries, MaxModels)] :
        /\ r.transport = "error" <=> r.status = 0
        /\ r.transport = "error" => ~r.json
        /\ ~r.json => ~r.hasModels
        /\ ~r.hasModels => r.models = <<>>}

\* serde's derived Deserialize for ModelsResponse and Model (lines 16-29): the body
\* must be JSON, models must be there, and every entry must have name and model.
DecodesAsModelsResponse(r) ==
    /\ r.json
    /\ r.hasModels
    /\ \A i \in 1 .. Len(r.models) :
          r.models[i].name # "missing" /\ r.models[i].model # "missing"

\* is_model_present lines 77-100: send (an error ends it), json() on the response
\* whatever its status (an error ends it), then any() over the entries.
IsModelPresent(r, name) ==
    IF r.transport = "error" THEN "error"
    ELSE IF ~DecodesAsModelsResponse(r) THEN "error"
    ELSE IF \E i \in 1 .. Len(r.models) :
                r.models[i].name = name \/ r.models[i].model = name
         THEN "present"
         ELSE "absent"

\* One call of is_model_present, for each response and each queried name.
InitTags ==
    /\ healthy = [e \in {1} |-> TRUE]
    /\ conns = [e \in {1} |-> 0]
    /\ maxc = [e \in {1} |-> 1]
    /\ strategy = "round_robin"
    /\ current = 0
    /\ start = 0
    /\ picks = <<>>
    /\ hcNext = 1
    /\ arrivals = 0
    /\ task = [t \in Tasks |-> FreshTask]
    /\ silent = {}
    /\ probe = ProbeIdle
    /\ boot = BootOver
    /\ report = ReportIdle
    /\ tags \in [resp : TagsResponses, name : ModelNames, out : {"none"}]
    /\ AuxIdle

IsModelPresentCall ==
    /\ tags.out = "none"
    /\ tags' = [tags EXCEPT !.out = IsModelPresent(tags.resp, tags.name)]
    /\ UNCHANGED <<reqVars, auxVars, healthy, hcNext, silent, probe, boot, report>>

NextTags == IsModelPresentCall

SpecTags == InitTags /\ [][NextTags]_vars

(* ----------------- src/src/main.rs: handle_health_check ----------------- *)

ModelAvailableUnlessAbsent(m) == m # "absent"

\* handle_health_check lines 217-220: is_model_present(..).await.unwrap_or(false).
ModelAvailable(m) == m = "present"

\* Lines 230-233: the rows with healthy && model_available, counted in order.
RECURSIVE HealthyCount(_, _)
HealthyCount(rows, i) ==
    IF i > Len(rows) THEN 0
    ELSE (IF rows[i].healthy /\ rows[i].model_available THEN 1 ELSE 0)
         + HealthyCount(rows, i + 1)

\* A GET /health request reaches the handler (lines 211-214).
ReportArrive ==
    /\ report.pc \in {"idle", "done"}
    /\ report' = [ReportIdle EXCEPT !.pc = "rows"]
    /\ UNCHANGED <<reqVars, auxVars, healthy, hcNext, silent, probe, boot, tags>>

\* One pass of the loop of lines 216-228: the model probe of the next endpoint
\* resolves, then its flag and its counter are read into the row.
ReportRow ==
    /\ report.pc = "rows"
    /\ \E m \in Resolves(report.i, "tags", "manager", ModelResults) :
        report' = [report EXCEPT
                      !.rows = Append(@, [healthy |-> healthy[report.i],
                                          current_connections |-> conns[report.i],
                                          model_available |-> ModelAvailable(m),
                                          probed |-> m]),
                      !.i = @ + 1,
                      !.pc = IF report.i = Cardinality(Pool) THEN "answer" ELSE "rows"]
    /\ UNCHANGED <<reqVars, auxVars, healthy, hcNext, silent, probe, boot, tags>>

\* Lines 230-249: the count, the totals and the status of the answer.
ReportAnswer ==
    /\ report.pc = "answer"
    /\ LET n == HealthyCount(report.rows, 1)
       IN report' = [report EXCEPT !.pc = "done", !.count = n,
                                   !.total = Cardinality(Pool),
                                   !.status = IF n > 0 THEN 200 ELSE 503]
    /\ UNCHANGED <<reqVars, auxVars, healthy, hcNext, silent, probe, boot, tags>>

NextReport ==
    \/ ReportArrive
    \/ ReportRow
    \/ ReportAnswer
    \/ HealthLoopStep

\* The server after start-up, answering /health while the health loop runs.
SpecReport == InitServer /\ [][NextReport]_vars

(* ----------- src/src/main.rs: handle_proxy, the upstream response ------- *)

\* Body chunks (two values, so that a repeated or swapped chunk shows), the values of
\* an upstream Content-Type header ("absent": no such header), and other headers.
Chunks == {"a", "b"}
ContentTypes ==
    {"application/x-ndjson", "application/x-ndjson; charset=utf-8", "application/json",
     "absent"}
OtherHeaders == {"x-request-id", "cache-control"}

\* An upstream response: its head, the chunks of its body, and whether the body
\* stream ends with a transport error after them instead of a clean end.
UpstreamResponses ==
    [status : {200, 500}, ctype : ContentTypes, other : SUBSET OtherHeaders,
     chunks : SeqUpTo(Chunks, MaxChunks), fails : BOOLEAN]

\* Line 160: the header map of the response, as name-value pairs.
HeadersOf(up) ==
    (IF up.ctype = "absent" THEN {} ELSE {<<"content-type", up.ctype>>})
        \cup {<<h, "v">> : h \in up.other}

\* ct.contains("application/x-ndjson"), over the values above.
ContainsNdjson(ct) ==
    ct \in {"application/x-ndjson", "application/x-ndjson; charset=utf-8"}

\* Lines 163-166: is_stream.
IsStream(hs) == \E h \in hs : h[1] = "content-type" /\ ContainsNdjson(h[2])

\* Lines 189-192: the head of the streaming response. The builder is given the
\* status and one header; the map response_headers of lines 170-177 is not used.
StreamHead(up) ==
    [status |-> up.status, headers |-> {<<"content-type", "application/x-ndjson">>}]

\* Lines 196-206: the head of the buffered response, every header copied.
UnaryHead(up) == [status |-> up.status, headers |-> HeadersOf(up)]

\* The head of the answer AppError::into_response gives for an error of ?.
ErrorHead(err) == [status |-> IntoResponse(err), headers |-> {}]

\* Lines 158-206 once the upstream head is in: the streaming response is returned at
\* once, its body still to come; the buffered one after the whole body was read
\* (line 195), a transport error there ending in the error answer.
RelayHead ==
    /\ relay.pc = "wait"
    /\ LET up == relay.up
       IN relay' =
            IF IsStream(HeadersOf(up))
            THEN [relay EXCEPT !.pc = "body", !.head = StreamHead(up)]
            ELSE IF up.fails
            THEN [relay EXCEPT !.pc = "ended", !.head = ErrorHead("reqwest::Error"),
                               !.end = "clean"]
            ELSE [relay EXCEPT !.pc = "ended", !.head = UnaryHead(up), !.got = up.chunks,
                               !.end = "clean"]
    /\ UNCHANGED <<reqVars, healthy, hcNext, silent, probe, boot, report, tags, reprobe, sound>>

\* Lines 180-186: the next item of bytes_stream is a chunk, handed on as it is.
RelayChunk ==
    /\ relay.pc = "body"
    /\ Len(relay.got) < Len(relay.up.chunks)
    /\ relay' = [relay EXCEPT !.got = Append(@, relay.up.chunks[Len(relay.got) + 1])]
    /\ UNCHANGED <<reqVars, healthy, hcNext, silent, probe, boot, report, tags, reprobe, sound>>

\* Lines 180-186: the upstream stream is over, by its end or by an error, which the
\* map turns into an io::Error item of the body stream.
RelayEnd ==
    /\ relay.pc = "body"
    /\ Len(relay.got) = Len(relay.up.chunks)
    /\ relay' = [relay EXCEPT !.pc = "ended",
                               !.end = IF relay.up.fails THEN "error" ELSE "clean"]
    /\ UNCHANGED <<reqVars, healthy, hcNext, silent, probe, boot, report, tags, reprobe, sound>>

\* One upstream response, for each head and body.
InitStream ==
    /\ healthy = [e \in {1} |-> TRUE]
    /\ conns = [e \in {1} |-> 0]
    /\ maxc = [e \in {1} |-> 1]
    /\ strategy = "round_robin"
    /\ current = 0
    /\ start = 0
    /\ picks = <<>>
    /\ hcNext = 1
    /\ arrivals = 0
    /\ task = [t \in Tasks |-> FreshTask]
    /\ silent = {}
    /\ probe = ProbeIdle
    /\ boot = BootOver
    /\ report = ReportIdle
    /\ tags = TagsNone
    /\ relay \in [up : UpstreamResponses, pc : {"wait"}, head : {<<>>}, got : {<<>>},
                  end : {"none"}]
    /\ reprobe = <<>>
    /\ sound = {}

NextStream == RelayHead \/ RelayChunk \/ RelayEnd

SpecStream == InitStream /\ [][NextStream]_vars

(* ------------------------------- claims --------------------------------- *)

\* The callers that hold a slot of endpoint e: their acquire returned true and they
\* have not released.
Holders(e) == {t \in DOMAIN task : task[t].pc = "holding" /\ task[t].cep = e}

\* The healthy endpoints, as a set.
HealthySet == {e \in Pool : healthy[e]}

\* How often endpoint e occurs in the log of picks.
Count(e) == Cardinality({i \in 1 .. Len(picks) : picks[i] = e})

\* C1: for every endpoint, in every reachable state (the states between the atomic
\* steps of concurrent increment_connections and decrement_connections calls
\* included), 0 <= current_connections <= max_connections.
C1_ConnectionsWithinCap == \A e \in Pool : 0 <= conns[e] /\ conns[e] <= maxc[e]

\* C2: under any interleaving of acquires and releases on one endpoint, each release
\* following a successful acquire of the same caller, the number of callers that
\* acquired and have not released never exceeds max_connections.
C2_HoldersWithinCap == \A e \in Pool : Cardinality(Holders(e)) <= maxc[e]

\* C2's case: an endpoint is full and a further caller's fetch_add has read a value
\* that refuses it.
C2_FullAndContended ==
    \E e \in Pool :
        /\ Cardinality(Holders(e)) = maxc[e]
        /\ \E t \in DOMAIN task :
              task[t].pc = "added" /\ task[t].cep = e /\ AtCap(task[t].cur, maxc[e])

\* C3: a request that selects an endpoint which already has max_connections
\* in-flight forwarded requests is answered 503 and is never forwarded.
C3_SaturatedRefused ==
    \A t \in Tasks :
        task[t].sat => ~task[t].everFwd /\ task[t].status \in {0, 503}

\* C4: after a request that ran with no other request in flight has been answered
\* (success, failure or refusal), the current_connections of the endpoint chosen for
\* it equals the value from before the request.
C4_CountRestored ==
    \A t \in Tasks :
        task[t].pc = "done" /\ task[t].status # 0 /\ task[t].alone
            => \A e \in {task[t].cep, task[t].ep} \ {0} : conns[e] = task[t].pre[e]

\* C5: in every reachable state each endpoint's current_connections equals the
\* number of requests in flight that are being forwarded to that endpoint.
C5_CountIsInFlight == \A e \in Pool : conns[e] = Cardinality(InFlight(e))

\* C6: a request whose acquire succeeded and that left by an upstream error, an
\* error response, a normal completion or the end or abort of its stream has
\* released exactly once, and while its response body still streams it has not
\* released yet.
C6_ReleasedOnceAtExit ==
    \A t \in Tasks :
        /\ task[t].pc = "streaming" => task[t].rel = 0
        /\ task[t].pc = "done" /\ task[t].acq = "true" /\ task[t].status # 0
              => task[t].rel = 1

\* C7: with N healthy endpoints that do not change, over K consecutive round-robin
\* picks from any starting counter value each healthy endpoint is returned
\* floor(K/N) or ceil(K/N) times.
C7_RoundRobinBalanced ==
    strategy = "round_robin" /\ HealthySet # {} =>
        LET n == Cardinality(HealthySet)
            k == Len(picks)
        IN \A e \in HealthySet : Count(e) \in {k \div n, (k + n - 1) \div n}

\* C8: with a fresh round-robin counter and every endpoint healthy, the i-th
\* get_endpoint call (i from 0) returns the endpoint at position i mod N of the pool.
C8_FreshRoundRobinOrder ==
    strategy = "round_robin" /\ start = 0 /\ HealthySet = Pool =>
        \A i \in 1 .. Len(picks) : picks[i] = ((i - 1) % Cardinality(Pool)) + 1

\* C8's case: two endpoints a, b, both healthy, fresh counter, four calls: a, b, a, b.
C8_FourCallsTwoEndpoints ==
    /\ strategy = "round_robin" /\ start = 0
    /\ Pool = {1, 2} /\ HealthySet = Pool
    /\ picks = <<1, 2, 1, 2>>

\* C9: least_connections returns a healthy endpoint whose connections value is the
\* minimum over the healthy ones, and of several such the first in pool order.
C9_LeastConnectionsFirstMin ==
    strategy = "least_connections" /\ HealthySet # {} =>
        \A i \in 1 .. Len(picks) :
            /\ picks[i] \in HealthySet
            /\ \A e \in HealthySet :
                  /\ conns[picks[i]] <= conns[e]
                  /\ conns[e] = conns[picks[i]] => picks[i] <= e

\* C9's case: the first endpoint is healthy and busier, the second and third are
\* healthy and tie at the minimum, and the pick is the second.
C9_TieAfterBusierFirst ==
    /\ strategy = "least_connections"
    /\ Pool = {1, 2, 3} /\ HealthySet = Pool
    /\ conns[1] > conns[2] /\ conns[2] = conns[3]
    /\ Len(picks) >= 1 /\ picks[1] = 2

\* C10: when every endpoint is unhealthy, the strategy in use (each of the three)
\* fails with NoHealthyEndpoints, get_endpoint returns it, and the request is
\* answered 503 and finished without having been forwarded.
C10_AllUnhealthy503 ==
    [][\A t \in Tasks :
          (task[t].pc = "hp_pick" /\ task'[t].pc # "hp_pick" /\ HealthySet = {})
              => /\ task'[t].ep = NoHealthyEndpoints
                 /\ task'[t].status = 503
                 /\ task'[t].pc = "done"
                 /\ ~task'[t].everFwd]_vars

\* C10's case: a request has been answered 503, unforwarded, with no endpoint healthy.
C10_Answered503 ==
    \E t \in Tasks :
        /\ HealthySet = {}
        /\ task[t].pc = "done" /\ task[t].status = 503
        /\ task[t].ep = NoHealthyEndpoints /\ ~task[t].everFwd

\* C11: every strategy returns only endpoints whose is_healthy() read true during the
\* pick: over a pool whose flags stay as they are, no pick of round_robin,
\* least_connections or random is an unhealthy endpoint, and a pick fails only when
\* no endpoint is healthy.
C11_PicksAreHealthy ==
    \A i \in 1 .. Len(picks) :
        IF HealthySet = {} THEN picks[i] = NoHealthyEndpoints ELSE picks[i] \in HealthySet

\* C11's case: the first endpoint of three is unhealthy, the others are healthy, and
\* the random strategy has returned each of the healthy ones.
C11_RandomSkipsUnhealthy ==
    /\ strategy = "random"
    /\ Pool = {1, 2, 3} /\ HealthySet = {2, 3}
    /\ \E i, j \in 1 .. Len(picks) : picks[i] = 2 /\ picks[j] = 3

\* C12: a check_health call leaves the endpoint marked healthy iff the liveness GET
\* returned 2xx and is_model_present returned true; any failure of either probe
\* (another status, a transport or decoding error, the model absent) leaves it
\* marked unhealthy, whatever the flag was before; the model probe is made only
\* after a passing liveness probe.
C12_FlagIsProbeResult ==
    [][(probe' # probe /\ probe'.pc = "idle")
          => /\ healthy'[probe'.ep] = (probe'.live = "2xx" /\ probe'.model = "present")
             /\ probe'.live # "2xx" => probe'.model = "none" /\ ~healthy'[probe'.ep]
             /\ probe'.model \in {"absent", "error"} => ~healthy'[probe'.ep]]_vars

\* C12's case: one check_health call with both probes passing has just flipped an
\* endpoint that was marked unhealthy to healthy.
C12_SingleProbeFlipsUp ==
    /\ probe.pc = "idle" /\ probe.ep \in Pool
    /\ probe.live = "2xx" /\ probe.model = "present"
    /\ ~probe.was /\ healthy[probe.ep]
    /\ hcNext = HcAdvanceFrom(probe.ep)

\* C16: initialize_system, with the health loop probing the same endpoints meanwhile,
\* fails fatally iff ensure_model failed on every endpoint and succeeds iff
\* ensure_model succeeded on at least one.
C16_FatalIffAllFailed ==
    boot.pc = "done" =>
        /\ boot.result = "fatal" <=> \A e \in Pool : boot.ensured[e] = "err"
        /\ boot.result = "ok" <=> \E e \in Pool : boot.ensured[e] = "ok"

\* C17: every outbound call to a backend honors the configured timeout, so whenever
\* the health loop or start-up awaits a call (liveness GET, GET /api/tags, POST
\* /api/pull), the
\* call can resolve, with an answer or with the timeout's error, and the loop can go
\* on to the other endpoints.
C17_AwaitedCallsResolve ==
    /\ probe.pc = "idle" =>
          Resolves(hcNext, "base", "health", {"2xx", "other", "error"}) # {}
    /\ probe.pc = "model" => Resolves(probe.ep, "tags", "manager", ModelResults) # {}
    /\ boot.pc = "tags" => Resolves(boot.i, "tags", "manager", ModelResults) # {}
    /\ boot.pc = "pull" => Resolves(boot.i, "pull", "manager", {"ok", "error"}) # {}

\* C20: ensure_model calls pull_model only when is_model_present returned false;
\* when it returns it has returned Ok and stored healthy iff the model was present
\* or the pull succeeded, and has returned the error and stored unhealthy iff the
\* presence check or the pull failed.
C20_EnsureModelOutcome ==
    [][/\ boot'.pc = "pull" => boot'.tagsLog[boot'.i] = "absent"
       /\ Len(boot'.ensured) > Len(boot.ensured) =>
            LET e == boot.i
            IN /\ boot'.pullLog[e] # "none" => boot'.tagsLog[e] = "absent"
               /\ boot'.tagsLog[e] \in {"present", "error"} => boot'.pullLog[e] = "none"
               /\ boot'.ensured[e] = "ok"
                     <=> boot'.tagsLog[e] = "present" \/ boot'.pullLog[e] = "ok"
               /\ boot'.ensured[e] = "err"
                     <=> boot'.tagsLog[e] = "error" \/ boot'.pullLog[e] = "error"
               /\ healthy'[e] = (boot'.ensured[e] = "ok")]_vars

\* C20's case: ensure_model has pulled the model on one endpoint and succeeded, and
\* has failed on another whose presence check returned an error, without a pull.
C20_PulledAndFailed ==
    /\ Len(boot.ensured) = 2
    /\ boot.tagsLog[1] = "absent" /\ boot.pullLog[1] = "ok" /\ boot.ensured[1] = "ok"
    /\ boot.tagsLog[2] = "error" /\ boot.pullLog[2] = "none" /\ boot.ensured[2] = "err"
    /\ boot.pc = "mark" /\ ~healthy[2]

\* C13: is_model_present returns true iff some entry of the returned models array
\* has name or model equal to the queried name; a 200 response with an empty models
\* array or with none returns false; a non-200 status, or an entry without name or
\* model, yields an HTTP error and no boolean.
C13_ModelPresence ==
    tags.out # "none" =>
        LET r == tags.resp
            complete == \A i \in 1 .. Len(r.models) :
                           r.models[i].name # "missing" /\ r.models[i].model # "missing"
            match == \E i \in 1 .. Len(r.models) :
                        r.models[i].name = tags.name \/ r.models[i].model = tags.name
        IN /\ r.transport = "error" => tags.out = "error"
           /\ r.transport = "ok" /\ r.status # 200 => tags.out = "error"
           /\ r.status = 200 /\ r.json /\ ~complete => tags.out = "error"
           /\ r.status = 200 /\ r.json /\ r.models = <<>> => tags.out = "absent"
           /\ r.status = 200 /\ r.json /\ complete /\ r.models # <<>>
                 => tags.out = IF match THEN "present" ELSE "absent"

\* C14: GET /health answers 200 iff at least one endpoint had its cached healthy flag
\* set and a live is_model_present probe that returned true, and 503 otherwise;
\* healthy_count is the number of such endpoints, total_endpoints the pool size, and
\* a failing model probe counts as model not available without failing the report.
C14_HealthReport ==
    report.pc = "done" =>
        LET good == {i \in 1 .. Len(report.rows) :
                        report.rows[i].healthy /\ report.rows[i].probed = "present"}
        IN /\ Len(report.rows) = Cardinality(Pool)
           /\ report.status = IF good # {} THEN 200 ELSE 503
           /\ report.count = Cardinality(good)
           /\ report.total = Cardinality(Pool)
           /\ \A i \in 1 .. Len(report.rows) :
                 report.rows[i].probed = "error" => ~report.rows[i].model_available

\* C14's case: of two endpoints the first is marked healthy but its model probe
\* failed, the second is marked healthy with the model present: 200, healthy_count 1.
C14_OneOfTwoCounts ==
    /\ report.pc = "done" /\ Len(report.rows) = 2
    /\ report.rows[1].healthy /\ report.rows[1].probed = "error"
    /\ report.rows[2].healthy /\ report.rows[2].probed = "present"
    /\ report.status = 200 /\ report.count = 1

\* C15: on the proxy path NoHealthyEndpoints and endpoint saturation give 503; every
\* other failure (model check false or errored, upstream transport error, header or
\* body conversion error) gives 500; the proxy produces no other error status. The
\* model check comes before the slot is taken, so its failure is the 500 of a
\* request that would also have found its endpoint saturated.
C15_ErrorStatusMapping ==
    \A t \in Tasks :
        task[t].status # 0 =>
            LET modelFailed == task[t].err \in {"ConfigError", "HttpError"}
            IN /\ task[t].err = "NoHealthyEndpoints" => task[t].status = 503
               /\ modelFailed => task[t].status = 500
               /\ task[t].sat /\ ~modelFailed => task[t].status = 503
               /\ ~task[t].sat /\ task[t].err \in {"reqwest::Error", "http::Error"}
                     => task[t].status = 500
               /\ ~task[t].sat /\ task[t].err = "none" => task[t].status = UpstreamStatus

\* The callers of endpoint e between the fetch_add and the compare of their
\* increment_connections call.
Adding(e) == {t \in DOMAIN task : task[t].pc = "added" /\ task[t].cep = e}

\* C18: increment_connections returns true iff the value its fetch_add read was
\* strictly below max_connections, and then it has raised the counter by exactly
\* one; otherwise it returns false and, once it has returned, the counter is as if
\* the call had never happened: the counter is the number of callers holding a slot
\* plus the calls still between their add and their compare.
C18_TryAcquireEffect ==
    [][/\ \A t \in DOMAIN task :
             task[t].pc = "added" /\ task'[t].pc # "added" =>
                 /\ task'[t].acq = IF task[t].cur < maxc[task[t].cep] THEN "true" ELSE "false"
                 /\ task'[t].acq = "true" => conns' = conns
                 /\ task'[t].acq = "false" =>
                        conns'[task[t].cep] = conns[task[t].cep] - 1
       /\ \A e \in Pool :
             conns'[e] = Cardinality(Holders(e)') + Cardinality(Adding(e)')]_vars

\* C18's case: the endpoint is full, a further call has returned false, no call is
\* under way, and the counter is max_connections.
C18_RefusedAndRestored ==
    \E e \in Pool :
        /\ Cardinality(Holders(e)) = maxc[e] /\ Adding(e) = {}
        /\ \E t \in DOMAIN task : task[t].pc = "idle" /\ task[t].acq = "false" /\ task[t].cep = e
        /\ conns[e] = maxc[e]

\* C19: decrement_connections is executed for an endpoint only by a request whose
\* own increment_connections on that endpoint returned true before, so the counter
\* is never decremented at 0 and never wraps below zero to 2^32 - 1.
C19_ReleaseOnlyAfterAcquire ==
    /\ \A t \in Tasks : task[t].rel > 0 => task[t].acq = "true"
    /\ \A e \in Pool : conns[e] # U32Mod - 1

\* The callers of endpoint e whose fetch_add read a value below max_connections and
\* that have not released: the holders, and the calls that are about to return true.
Admitted(e) ==
    Holders(e) \cup {t \in Adding(e) : ~AtCap(task[t].cur, maxc[e])}

\* C25: increment_connections returns false only if, at the moment of its
\* fetch_add, the callers holding a slot of the endpoint (admitted and not yet
\* released) are max_connections many: the increment of a failing call that is not
\* undone yet never makes another call fail while a slot is free.
C25_RefusedOnlyWhenFull ==
    [][\A t \in DOMAIN task :
          /\ task[t].pc = "idle" /\ task'[t].pc = "added"
          /\ AtCap(task'[t].cur, maxc[task'[t].cep])
          => Cardinality(Admitted(task'[t].cep)) = maxc[task'[t].cep]]_vars

\* C22: the round-robin counter is never reset (it is the starting value plus the
\* number of picks, modulo 2^w), and the pick that uses the counter value 0 reached
\* by the wrap returns the healthy endpoint that follows, in cyclic order, the one
\* returned by the pick that used 2^w - 1, whatever the number of healthy endpoints.
C22_WrapKeepsRotation ==
    strategy = "round_robin" /\ HealthySet # {} =>
        LET he == HealthyEndpoints(healthy)
            n == Len(he)
        IN /\ current = (start + Len(picks)) % UsizeMod
           /\ \A k \in 1 .. Len(picks) - 1 :
                 (start + k - 1) % UsizeMod = UsizeMod - 1 =>
                     \E i \in 1 .. n : he[i] = picks[k] /\ picks[k + 1] = he[(i % n) + 1]

\* C24: for an upstream response whose Content-Type contains application/x-ndjson,
\* the client's response has the upstream status and every upstream header, the
\* chunks the client has received are the upstream's, each once and in order, and
\* the body ends with an error if the upstream stream did, cleanly otherwise.
C24_StreamedThrough ==
    relay.pc \in {"body", "ended"} /\ IsStream(HeadersOf(relay.up)) =>
        /\ relay.head.status = relay.up.status
        /\ relay.head.headers = HeadersOf(relay.up)
        /\ relay.got = SubSeq(relay.up.chunks, 1, Len(relay.got))
        /\ relay.pc = "ended" =>
              /\ relay.got = relay.up.chunks
              /\ relay.end = IF relay.up.fails THEN "error" ELSE "clean"

\* C23: the step of get_endpoint that reads the chosen endpoint's flag at the end of
\* the call returns that endpoint to the caller whatever the flag reads; it spawns
\* exactly one re-probe, of that endpoint, when the flag reads unhealthy, and none
\* when it reads healthy.
C23_ReprobeOnUnhealthyPick ==
    [][\A t \in Tasks :
          task[t].pc = "ge_check" /\ task'[t].pc # "ge_check" =>
              /\ task'[t].pc = "done" /\ task'[t].ep = task[t].ep
              /\ picks' = Append(picks, task[t].ep)
              /\ IF healthy[task[t].ep]
                 THEN reprobe' = reprobe
                 ELSE /\ Len(reprobe') = Len(reprobe) + 1
                      /\ SubSeq(reprobe', 1, Len(reprobe)) = reprobe
                      /\ reprobe'[Len(reprobe')].ep = task[t].ep
                      /\ reprobe'[Len(reprobe')].pc = "live"]_vars

\* C23's case: a call whose filter saw the endpoint healthy has returned it after
\* the health loop marked it unhealthy, and the one re-probe it spawned is under way.
C23_ReturnedWhileFlipped ==
    \E t \in Tasks :
        /\ task[t].pc = "done" /\ task[t].ep \in Pool
        /\ \E k \in 1 .. Len(task[t].hl) : task[t].hl[k] = task[t].ep
        /\ Cardinality({i \in DOMAIN reprobe : reprobe[i].by = t}) = 1
        /\ \E i \in DOMAIN reprobe :
              reprobe[i].by = t /\ reprobe[i].ep = task[t].ep /\ reprobe[i].pc = "live"
        /\ picks[Len(picks)] = task[t].ep

\* C26: with the health loop, the get_endpoint calls and the re-probes all scheduled
\* fairly, an endpoint whose backend fails the liveness probe for good (it never
\* answers it) is from some point on marked unhealthy for ever and chosen by no
\* get_endpoint call, and an endpoint whose backend passes both probes for good is
\* from some point on marked healthy for ever.
C26_FlagsConverge ==
    \A e \in 1 .. ProxyPool :
        /\ <<e, "base">> \in silent =>
              <>[](~healthy[e] /\ \A t \in Tasks : task[t].pc = "ge_check" => task[t].ep # e)
        /\ e \in sound => <>[]healthy[e]

====
